---- MODULE Spec2Model ----
(***************************************************************************)
(* Model of terraform-provider-influxdbv2: the provider root, the          *)
(* organization resource and data source, and the bucket resource.         *)
(* Every handler is one atomic action; the remote service reached through  *)
(* the client SDK is the environment: a store of organizations and buckets *)
(* whose calls either fail or act on the store.                            *)
(***************************************************************************)
EXTENDS Integers, Sequences, FiniteSets, TLC

VARIABLES
  entity,         \* the declared entity the host drives in this run
  providerData,   \* client handle handed to resources / data sources
  provDiags,      \* diagnostics of the provider's Configure
  orgs,           \* remote organizations, by id
  buckets,        \* remote buckets, by id
  now,            \* remote service clock (source of timestamps)
  nextOrgId,      \* remote id allocation, organizations
  nextBucketId,   \* remote id allocation, buckets
  orgState,       \* local state of the organization resource
  orgOrigin,      \* how orgState came to be: created (with which id) or imported
  bucketState,    \* local state of the bucket resource
  bucketOrigin,   \* how bucketState came to be
  dataState,      \* local state of the organization data source
  last,           \* record of the last handler invocation
  rt              \* retention-rule transcoding pipeline (SpecRT)

vars == <<entity, providerData, provDiags, orgs, buckets, now, nextOrgId, nextBucketId,
          orgState, orgOrigin, bucketState, bucketOrigin, dataState, last, rt>>

(***************************************************************************)
(* Bounds                                                                  *)
(***************************************************************************)
MaxTime == 2        \* remote mutations (each one advances the clock)
MaxLen == 3         \* retention rules in a transcoded list (SpecRT)

(***************************************************************************)
(* Value domains                                                           *)
(***************************************************************************)
Names == {"a", "b"}
Descriptions == {"d"}
Hosts == {"http://influxdb:8086"}
RPs == {"0"}
Seconds == {1, 2}
RuleTypes == {"expire"}

(***************************************************************************)
(* terraform-plugin-framework values (types.String, types.Int64) and Go    *)
(* pointers, with the conversions the handlers use.                        *)
(***************************************************************************)
StringNull == <<"null">>
StringUnknown == <<"unknown">>
StringValue(s) == <<"known", s>>
Int64Value(n) == <<"known", n>>
Nil == <<"nil">>
Ptr(v) == <<"ptr", v>>

IsUnknown(v) == v[1] = "unknown"
ValueString(v) == IF v[1] = "known" THEN v[2] ELSE ""
ValueStringPointer(v) == IF v[1] = "known" THEN Ptr(v[2]) ELSE Nil
ValueInt64(v) == IF v[1] = "known" THEN v[2] ELSE 0
StringPointerValue(p) == IF p = Nil THEN StringNull ELSE StringValue(p[2])

\* time.Time.String(): the formatted instant
TimeString(t) == "t" \o ToString(t)

\* absent local state, absent client handle, absent SDK result
NoState == [none |-> "state"]
NoClient == [none |-> "client"]
NoEntity == [none |-> "entity"]


(***************************************************************************)
(* Record of one handler invocation: the SDK calls it issued, in order,    *)
(* each with its outcome; the diagnostics it appended; whether it wrote    *)
(* local state; whether it panicked; the identifier it addressed; its      *)
(* input and the last SDK response.                                        *)
(***************************************************************************)
Invocation(res, op, calls, diags, wrote, crashed, id, plan, resp) ==
  [res |-> res, op |-> op, calls |-> calls, diags |-> diags, wrote |-> wrote,
   crashed |-> crashed, id |-> id, plan |-> plan, resp |-> resp]

Diag(summary, detail, id) == [summary |-> summary, detail |-> detail, id |-> id]
HasError(diags) == Len(diags) > 0

Ok(name) == <<name, "ok">>
Err(name) == <<name, "err">>

(***************************************************************************)
(* The remote service behind the SDK.  A client bound to an empty host     *)
(* reaches nothing: every call returns an error.  Any call may fail.       *)
(***************************************************************************)
Reachable == providerData # NoClient /\ providerData.host # ""

OrgId(n) == "o" \o ToString(n)
BucketId(n) == "b" \o ToString(n)

OrgNameTaken(name, except) ==
  \E i \in DOMAIN orgs : i # except /\ orgs[i].Name = name

\* OrganizationsAPI().CreateOrganization: the service assigns id, status and
\* timestamps; it rejects a duplicate name.
CanCreateOrganization(o) ==
  Reachable /\ now < MaxTime /\ ~OrgNameTaken(o.Name, "")
CreateOrganization(o) ==
  [Id |-> Ptr(OrgId(nextOrgId)), Name |-> o.Name, Description |-> o.Description,
   Status |-> Ptr("active"), CreatedAt |-> Ptr(now + 1), UpdatedAt |-> Ptr(now + 1)]

\* An entity without an identifier: the "missing-id" answer to a lookup that
\* matches nothing.  Its timestamps may or may not be present.
NoIdOrganization(t) ==
  [Id |-> Nil, Name |-> "", Description |-> Nil, Status |-> Nil,
   CreatedAt |-> t, UpdatedAt |-> t]

\* OrganizationsAPI().FindOrganizationByID: the set of possible answers.
FindOrganizationByID(id) ==
  {[err |-> TRUE, val |-> NoEntity]} \cup
  (IF ~Reachable THEN {}
   ELSE IF id \in DOMAIN orgs THEN {[err |-> FALSE, val |-> orgs[id]]}
   ELSE {[err |-> FALSE, val |-> NoIdOrganization(t)] : t \in {Nil, Ptr(0)}})

\* OrganizationsAPI().FindOrganizationByName: an error when nothing matches.
FindOrganizationByName(name) ==
  {[err |-> TRUE, val |-> NoEntity]} \cup
  (IF ~Reachable THEN {}
   ELSE {[err |-> FALSE, val |-> orgs[i]] : i \in {j \in DOMAIN orgs : orgs[j].Name = name}})

\* OrganizationsAPI().UpdateOrganization: replaces name and description of the
\* stored organization and stamps it.
CanUpdateOrganization(o) ==
  /\ Reachable /\ now < MaxTime
  /\ o.Id # Nil /\ o.Id[2] \in DOMAIN orgs
  /\ ~OrgNameTaken(o.Name, o.Id[2])
UpdateOrganization(o) ==
  [orgs[o.Id[2]] EXCEPT !.Name = o.Name, !.Description = o.Description,
                        !.UpdatedAt = Ptr(now + 1)]

\* OrganizationsAPI().DeleteOrganizationWithID
CanDeleteOrganization(id) == Reachable /\ id \in DOMAIN orgs

Put(store, id, rec) == [i \in DOMAIN store \cup {id} |-> IF i = id THEN rec ELSE store[i]]
Remove(store, id) == [i \in DOMAIN store \ {id} |-> store[i]]

(***************************************************************************)
(* Provider root                                                           *)
(***************************************************************************)
ProviderConfigs ==
  [Host : {StringNull, StringUnknown} \cup {StringValue(h) : h \in Hosts},
   ApiKey : {StringValue("key")}]

\* influxdb2.NewClient(host, credential)
NewClient(host, credential) == [host |-> host, credential |-> credential]

\* InfluxdbV2Provider.Configure
ConfigureResult(config) ==
  LET diags == IF IsUnknown(config.Host)
               THEN <<Diag("Unknown InfluxdbV2 API Host", "unknown host", "host")>>
               ELSE <<>>
      influxClient == NewClient(ValueString(config.Host), ValueString(config.ApiKey))
  IN [diags |-> diags, data |-> influxClient]

Configure ==
  /\ providerData = NoClient
  /\ \E config \in ProviderConfigs :
       LET r == ConfigureResult(config) IN
       /\ provDiags' = r.diags
       /\ providerData' = r.data
       /\ last' = Invocation("provider", "Configure", <<>>, r.diags, FALSE, FALSE,
                             "", config, NoEntity)
  /\ UNCHANGED <<entity, orgs, buckets, now, nextOrgId, nextBucketId, orgState,
                 orgOrigin, bucketState, bucketOrigin, dataState, rt>>


(***************************************************************************)
(* Organization resource                                                   *)
(***************************************************************************)
DescriptionValues == {StringNull} \cup {StringValue(d) : d \in Descriptions}

\* organizationResourceModel as the host hands it over in a plan: the
\* configured attributes are known, the computed ones are unknown.
OrgPlans ==
  [Name : {StringValue(n) : n \in Names}, Id : {StringUnknown},
   Description : DescriptionValues, Status : {StringUnknown},
   CreatedAt : {StringUnknown}, UpdatedAt : {StringUnknown}]

\* organizationResource.Create, after a successful CreateOrganization
OrgCreateState(plan, newOrganization) ==
  [plan EXCEPT !.Id = StringPointerValue(newOrganization.Id),
               !.Name = StringValue(newOrganization.Name),
               !.Description = StringPointerValue(newOrganization.Description),
               !.Status = StringPointerValue(newOrganization.Status),
               !.CreatedAt = StringValue(TimeString(newOrganization.CreatedAt[2])),
               !.UpdatedAt = StringValue(TimeString(newOrganization.UpdatedAt[2]))]

OrgCreate ==
  /\ entity = "organization"
  /\ providerData # NoClient
  /\ orgState = NoState
  /\ \E plan \in OrgPlans, err \in BOOLEAN :
       LET organization == [Id |-> Nil, Name |-> ValueString(plan.Name),
                            Description |-> ValueStringPointer(plan.Description),
                            Status |-> Nil, CreatedAt |-> Nil, UpdatedAt |-> Nil]
           newOrganization == CreateOrganization(organization)
       IN IF err \/ ~CanCreateOrganization(organization)
          THEN /\ last' = Invocation("org", "Create", <<Err("CreateOrganization")>>,
                                     <<Diag("Error creating organization", "sdk", "")>>,
                                     FALSE, FALSE, "", plan, NoEntity)
               /\ UNCHANGED <<orgs, now, nextOrgId, orgState, orgOrigin>>
          ELSE /\ orgs' = Put(orgs, newOrganization.Id[2], newOrganization)
               /\ now' = now + 1
               /\ nextOrgId' = nextOrgId + 1
               /\ orgState' = OrgCreateState(plan, newOrganization)
               /\ orgOrigin' = [by |-> "create", id |-> orgState'.Id]
               /\ last' = Invocation("org", "Create", <<Ok("CreateOrganization")>>, <<>>,
                                     TRUE, FALSE, "", plan, newOrganization)
  /\ UNCHANGED <<entity, providerData, provDiags, buckets, nextBucketId, bucketState,
                 bucketOrigin, dataState, rt>>

\* variant of OrgReadState: the identifier is taken from the wrong field
OrgReadStateIdFromName(state, organization) ==
  [state EXCEPT !.Id = StringValue(organization.Name),
                !.Description = StringPointerValue(organization.Description),
                !.Status = StringPointerValue(organization.Status),
                !.CreatedAt = StringValue(TimeString(organization.CreatedAt[2])),
                !.UpdatedAt = StringValue(TimeString(organization.UpdatedAt[2]))]

\* organizationResource.Read, after a successful FindOrganizationByID
OrgReadState(state, organization) ==
  [state EXCEPT !.Id = StringPointerValue(organization.Id),
                !.Description = StringPointerValue(organization.Description),
                !.Status = StringPointerValue(organization.Status),
                !.CreatedAt = StringValue(TimeString(organization.CreatedAt[2])),
                !.UpdatedAt = StringValue(TimeString(organization.UpdatedAt[2]))]

\* variant of OrgReadOutcome: a failed lookup is tried once more
OrgReadOutcomeRetry(state, answer) ==
  IF answer.err
  THEN [calls |-> <<Err("FindOrganizationByID"), Err("FindOrganizationByID")>>,
        diags |-> <<Diag("Error reading organization", "sdk", ValueString(state.Id))>>,
        wrote |-> FALSE, crashed |-> FALSE, state |-> state]
  ELSE IF answer.val.CreatedAt = Nil \/ answer.val.UpdatedAt = Nil
  THEN [calls |-> <<Ok("FindOrganizationByID")>>, diags |-> <<>>,
        wrote |-> FALSE, crashed |-> TRUE, state |-> state]
  ELSE [calls |-> <<Ok("FindOrganizationByID")>>, diags |-> <<>>,
        wrote |-> TRUE, crashed |-> FALSE, state |-> OrgReadState(state, answer.val)]

\* organizationResource.Read: what it does with the answer of the lookup
OrgReadOutcome(state, answer) ==
  IF answer.err
  THEN [calls |-> <<Err("FindOrganizationByID")>>,
        diags |-> <<Diag("Error reading organization", "sdk", ValueString(state.Id))>>,
        wrote |-> FALSE, crashed |-> FALSE, state |-> state]
  ELSE IF answer.val.CreatedAt = Nil \/ answer.val.UpdatedAt = Nil
  THEN \* nil *time.Time dereferenced by CreatedAt.String()
       [calls |-> <<Ok("FindOrganizationByID")>>, diags |-> <<>>,
        wrote |-> FALSE, crashed |-> TRUE, state |-> state]
  ELSE [calls |-> <<Ok("FindOrganizationByID")>>, diags |-> <<>>,
        wrote |-> TRUE, crashed |-> FALSE, state |-> OrgReadState(state, answer.val)]

OrgRead ==
  /\ entity = "organization"
  /\ providerData # NoClient
  /\ orgState # NoState
  /\ \E answer \in FindOrganizationByID(ValueString(orgState.Id)) :
       LET out == OrgReadOutcome(orgState, answer) IN
       /\ orgState' = out.state
       /\ last' = Invocation("org", "Read", out.calls, out.diags, out.wrote,
                             out.crashed, ValueString(orgState.Id), NoState, answer.val)
  /\ UNCHANGED <<entity, providerData, provDiags, orgs, buckets, now, nextOrgId, nextBucketId,
                 orgOrigin, bucketState, bucketOrigin, dataState, rt>>


\* organizationResource.Update, after a successful UpdateOrganization
OrgUpdateState(plan, organization) ==
  [plan EXCEPT !.Id = StringPointerValue(organization.Id),
               !.Description = StringPointerValue(organization.Description),
               !.Status = StringPointerValue(organization.Status),
               !.CreatedAt = StringValue(TimeString(organization.CreatedAt[2])),
               !.UpdatedAt = StringValue(TimeString(organization.UpdatedAt[2]))]

\* organizationResource.Update: the object pushed back to the service
OrgUpdateRequest(plan, organization) ==
  [organization EXCEPT !.Name = ValueString(plan.Name),
                       !.Description = ValueStringPointer(plan.Description)]

OrgUpdate ==
  /\ entity = "organization"
  /\ providerData # NoClient
  /\ orgState # NoState
  /\ \E plan \in OrgPlans, answer \in FindOrganizationByID(ValueString(orgState.Id)),
        err \in BOOLEAN :
       IF answer.err
       THEN /\ ~err
            /\ last' = Invocation("org", "Update", <<Err("FindOrganizationByID")>>,
                         <<Diag("Error reading organization", "sdk", ValueString(orgState.Id))>>,
                         FALSE, FALSE, ValueString(orgState.Id), plan, NoEntity)
            /\ UNCHANGED <<orgs, now, orgState>>
       ELSE IF answer.val.Id = Nil
       THEN /\ ~err
            /\ last' = Invocation("org", "Update", <<Ok("FindOrganizationByID")>>,
                         <<Diag("Error reading organization", "Organization not found",
                                ValueString(orgState.Id))>>,
                         FALSE, FALSE, ValueString(orgState.Id), plan, answer.val)
            /\ UNCHANGED <<orgs, now, orgState>>
       ELSE LET request == OrgUpdateRequest(plan, answer.val)
                organization == UpdateOrganization(request)
            IN IF err \/ ~CanUpdateOrganization(request)
               THEN /\ last' = Invocation("org", "Update",
                              <<Ok("FindOrganizationByID"), Err("UpdateOrganization")>>,
                              <<Diag("Error updating organization", "sdk", ValueString(plan.Id))>>,
                              FALSE, FALSE, ValueString(orgState.Id), plan, NoEntity)
                    /\ UNCHANGED <<orgs, now, orgState>>
               ELSE /\ orgs' = Put(orgs, request.Id[2], organization)
                    /\ now' = now + 1
                    /\ orgState' = OrgUpdateState(plan, organization)
                    /\ last' = Invocation("org", "Update",
                              <<Ok("FindOrganizationByID"), Ok("UpdateOrganization")>>,
                              <<>>, TRUE, FALSE, ValueString(orgState.Id), plan, organization)
  /\ UNCHANGED <<entity, providerData, provDiags, buckets, nextOrgId, nextBucketId, orgOrigin,
                 bucketState, bucketOrigin, dataState, rt>>

\* organizationResource.Delete; the plugin framework drops the resource's
\* state when Delete returns without an error diagnostic.
OrgDelete ==
  /\ entity = "organization"
  /\ providerData # NoClient
  /\ orgState # NoState
  /\ \E err \in BOOLEAN :
       IF err \/ ~CanDeleteOrganization(ValueString(orgState.Id))
       THEN /\ last' = Invocation("org", "Delete", <<Err("DeleteOrganizationWithID")>>,
                         <<Diag("Error deleteing organization", "sdk", ValueString(orgState.Id))>>,
                         FALSE, FALSE, ValueString(orgState.Id), NoState, NoEntity)
            /\ UNCHANGED <<orgs, orgState, orgOrigin>>
       ELSE /\ orgs' = Remove(orgs, ValueString(orgState.Id))
            /\ orgState' = NoState
            /\ orgOrigin' = [by |-> "none", id |-> StringNull]
            /\ last' = Invocation("org", "Delete", <<Ok("DeleteOrganizationWithID")>>,
                                  <<>>, FALSE, FALSE, ValueString(orgState.Id), NoState, NoEntity)
  /\ UNCHANGED <<entity, providerData, provDiags, buckets, now, nextOrgId, nextBucketId,
                 bucketState, bucketOrigin, dataState, rt>>

\* organizationResource.ImportState: resource.ImportStatePassthroughID sets
\* the id attribute; every other attribute of the new state is null.
OrgImportedState(id) ==
  [Name |-> StringNull, Id |-> StringValue(id), Description |-> StringNull,
   Status |-> StringNull, CreatedAt |-> StringNull, UpdatedAt |-> StringNull]

OrgImportState ==
  /\ entity = "organization"
  /\ providerData # NoClient
  /\ orgState = NoState
  /\ \E n \in 1..nextOrgId :
       /\ orgState' = OrgImportedState(OrgId(n))
       /\ orgOrigin' = [by |-> "import", id |-> StringValue(OrgId(n))]
       /\ last' = Invocation("org", "ImportState", <<>>, <<>>, TRUE, FALSE,
                             OrgId(n), NoState, NoEntity)
  /\ UNCHANGED <<entity, providerData, provDiags, orgs, buckets, now, nextOrgId, nextBucketId,
                 bucketState, bucketOrigin, dataState, rt>>

\* The remote service owns the organizations: another client renames one.
RemoteRenameOrganization ==
  /\ entity = "organization"
  /\ now < MaxTime
  /\ \E id \in DOMAIN orgs, name \in Names :
       /\ name # orgs[id].Name
       /\ ~OrgNameTaken(name, id)
       /\ orgs' = [orgs EXCEPT ![id].Name = name, ![id].UpdatedAt = Ptr(now + 1)]
       /\ last' = Invocation("remote", "RenameOrganization", <<>>, <<>>, FALSE, FALSE,
                             id, NoState, NoEntity)
  /\ now' = now + 1
  /\ UNCHANGED <<entity, providerData, provDiags, buckets, nextOrgId, nextBucketId, orgState,
                 orgOrigin, bucketState, bucketOrigin, dataState, rt>>

(***************************************************************************)
(* Organization data source (lookup by name)                               *)
(***************************************************************************)
\* OrganizationDataSourceModel read from the configuration
DataConfig(name) ==
  [Name |-> StringValue(name), Id |-> StringNull, Description |-> StringNull,
   Status |-> StringNull, CreatedAt |-> StringNull, UpdatedAt |-> StringNull]

\* organizationDataSource.Read, after a successful FindOrganizationByName
DataReadState(state, organization) ==
  LET s1 == [state EXCEPT !.Id = StringPointerValue(organization.Id)]
      s2 == [s1 EXCEPT !.Description = StringPointerValue(organization.Description)]
      s3 == [s2 EXCEPT !.Description = StringPointerValue(organization.Status)]
  IN [s3 EXCEPT !.CreatedAt = StringValue(TimeString(organization.CreatedAt[2])),
                !.UpdatedAt = StringValue(TimeString(organization.UpdatedAt[2]))]

\* variant of DataReadOutcome: a failed lookup is taken for an empty result
DataReadOutcomeEmptySuccess(state, answer) ==
  IF answer.err
  THEN [calls |-> <<Err("FindOrganizationByName")>>, diags |-> <<>>,
        wrote |-> TRUE, state |-> state]
  ELSE [calls |-> <<Ok("FindOrganizationByName")>>, diags |-> <<>>,
        wrote |-> TRUE, state |-> DataReadState(state, answer.val)]

\* organizationDataSource.Read: what it does with the answer of the lookup
DataReadOutcome(state, answer) ==
  IF answer.err
  THEN [calls |-> <<Err("FindOrganizationByName")>>,
        diags |-> <<Diag("Error on request", "sdk", "")>>,
        wrote |-> FALSE, state |-> state]
  ELSE [calls |-> <<Ok("FindOrganizationByName")>>, diags |-> <<>>,
        wrote |-> TRUE, state |-> DataReadState(state, answer.val)]

DataRead ==
  /\ entity = "organization"
  /\ providerData # NoClient
  /\ \E name \in Names :
       \E answer \in FindOrganizationByName(name) :
         LET out == DataReadOutcome(DataConfig(name), answer) IN
         /\ dataState' = IF out.wrote THEN out.state ELSE dataState
         /\ last' = Invocation("data", "Read", out.calls, out.diags, out.wrote, FALSE,
                               "", DataConfig(name), answer.val)
  /\ UNCHANGED <<entity, providerData, provDiags, orgs, buckets, now, nextOrgId, nextBucketId,
                 orgState, orgOrigin, bucketState, bucketOrigin, rt>>


(***************************************************************************)
(* Bucket resource                                                         *)
(***************************************************************************)
\* local model -> remote form, rule by rule, appending in order
RECURSIVE ToRemoteRules(_)
ToRemoteRules(rules) ==
  IF rules = <<>> THEN <<>>
  ELSE <<[EverySeconds |-> ValueInt64(Head(rules).EverySeconds),
          Type |-> ValueStringPointer(Head(rules).RetentionType)]>>
       \o ToRemoteRules(Tail(rules))

\* variant of ToLocalRules: each rule is put in front of the ones before it
RECURSIVE ToLocalRulesPrepend(_)
ToLocalRulesPrepend(rules) ==
  IF rules = <<>> THEN <<>>
  ELSE ToLocalRulesPrepend(Tail(rules))
       \o <<[EverySeconds |-> Int64Value(Head(rules).EverySeconds),
             RetentionType |-> StringPointerValue(Head(rules).Type)]>>

\* remote form -> local model, rule by rule, appending in order
RECURSIVE ToLocalRules(_)
ToLocalRules(rules) ==
  IF rules = <<>> THEN <<>>
  ELSE <<[EverySeconds |-> Int64Value(Head(rules).EverySeconds),
          RetentionType |-> StringPointerValue(Head(rules).Type)]>>
       \o ToLocalRules(Tail(rules))

SeqsUpTo(S, n) == UNION {[1..k -> S] : k \in 0..n}

\* bucketRetentionRulesModel values of a plan: both attributes are required
PlanRules ==
  [EverySeconds : {Int64Value(n) : n \in Seconds},
   RetentionType : {StringValue(t) : t \in RuleTypes}]

\* retention_rules of a plan: no rule, one rule, another rule
PlanRuleLists == {<<>>} \cup {<<r>> : r \in PlanRules}

\* bucketResourceModel as the host hands it over in a plan
BucketPlans ==
  [Name : {StringValue(n) : n \in Names}, Id : {StringUnknown},
   OrgID : {StringValue(OrgId(n)) : n \in 1..2},
   Description : {StringNull},
   RetentioRules : PlanRuleLists,
   RP : {StringNull} \cup {StringValue(r) : r \in RPs},
   ScehmaType : {StringNull},
   CreatedAt : {StringUnknown}, UpdatedAt : {StringUnknown}]

\* BucketsAPI().CreateBucket: the service assigns id, schema type and timestamps
CanCreateBucket(b) == Reachable /\ now < MaxTime
CreateBucket(b) ==
  [Id |-> Ptr(BucketId(nextBucketId)), Name |-> b.Name, OrgID |-> b.OrgID,
   Description |-> b.Description, Rp |-> b.Rp, RetentionRules |-> b.RetentionRules,
   SchemaType |-> Ptr("implicit"), CreatedAt |-> Ptr(now + 1), UpdatedAt |-> Ptr(now + 1)]

NoIdBucket(t) ==
  [Id |-> Nil, Name |-> "", OrgID |-> Nil, Description |-> Nil, Rp |-> Nil,
   RetentionRules |-> <<>>, SchemaType |-> Nil, CreatedAt |-> t, UpdatedAt |-> t]

\* BucketsAPI().FindBucketByID: the set of possible answers
FindBucketByID(id) ==
  {[err |-> TRUE, val |-> NoEntity]} \cup
  (IF ~Reachable THEN {}
   ELSE IF id \in DOMAIN buckets THEN {[err |-> FALSE, val |-> buckets[id]]}
   ELSE {[err |-> FALSE, val |-> NoIdBucket(t)] : t \in {Nil, Ptr(0)}})

\* BucketsAPI().UpdateBucket: replaces name, description and retention rules
\* of the stored bucket and stamps it
CanUpdateBucket(b) ==
  Reachable /\ now < MaxTime /\ b.Id # Nil /\ b.Id[2] \in DOMAIN buckets
UpdateBucket(b) ==
  [buckets[b.Id[2]] EXCEPT !.Name = b.Name, !.Description = b.Description,
                           !.RetentionRules = b.RetentionRules,
                           !.UpdatedAt = Ptr(now + 1)]

\* BucketsAPI().DeleteBucketWithID
CanDeleteBucket(id) == Reachable /\ id \in DOMAIN buckets

\* variant of BucketCreateRequest: the organization id is not set
BucketCreateRequestNoOrg(plan) ==
  [Id |-> Nil, Name |-> ValueString(plan.Name),
   OrgID |-> Nil,
   Description |-> ValueStringPointer(plan.Description),
   Rp |-> ValueStringPointer(plan.RP),
   RetentionRules |-> ToRemoteRules(plan.RetentioRules),
   SchemaType |-> Nil, CreatedAt |-> Nil, UpdatedAt |-> Nil]

\* bucketResource.Create: the bucket sent to the service
BucketCreateRequest(plan) ==
  [Id |-> Nil, Name |-> ValueString(plan.Name),
   OrgID |-> ValueStringPointer(plan.OrgID),
   Description |-> ValueStringPointer(plan.Description),
   Rp |-> ValueStringPointer(plan.RP),
   RetentionRules |-> ToRemoteRules(plan.RetentioRules),
   SchemaType |-> Nil, CreatedAt |-> Nil, UpdatedAt |-> Nil]

\* bucketResource.Create / bucketResource.Read: every attribute of the state
\* is taken from the bucket the service returned
BucketStateOf(bucket) ==
  [Id |-> StringPointerValue(bucket.Id),
   Name |-> StringValue(bucket.Name),
   Description |-> StringPointerValue(bucket.Description),
   OrgID |-> StringPointerValue(bucket.OrgID),
   RP |-> StringPointerValue(bucket.Rp),
   RetentioRules |-> ToLocalRules(bucket.RetentionRules),
   ScehmaType |-> StringPointerValue(bucket.SchemaType),
   CreatedAt |-> StringValue(TimeString(bucket.CreatedAt[2])),
   UpdatedAt |-> StringValue(TimeString(bucket.UpdatedAt[2]))]

BucketCreate ==
  /\ entity = "bucket"
  /\ providerData # NoClient
  /\ bucketState = NoState
  /\ \E plan \in BucketPlans, err \in BOOLEAN :
       LET bucket == BucketCreateRequest(plan)
           newBucket == CreateBucket(bucket)
       IN IF err \/ ~CanCreateBucket(bucket)
          THEN /\ last' = Invocation("bucket", "Create", <<Err("CreateBucket")>>,
                                     <<Diag("Error creating bucket", "sdk", "")>>,
                                     FALSE, FALSE, "", plan, NoEntity)
               /\ UNCHANGED <<buckets, now, nextBucketId, bucketState, bucketOrigin>>
          ELSE /\ buckets' = Put(buckets, newBucket.Id[2], newBucket)
               /\ now' = now + 1
               /\ nextBucketId' = nextBucketId + 1
               /\ bucketState' = BucketStateOf(newBucket)
               /\ bucketOrigin' = [by |-> "create", id |-> bucketState'.Id]
               /\ last' = Invocation("bucket", "Create", <<Ok("CreateBucket")>>, <<>>,
                                     TRUE, FALSE, "", plan, newBucket)
  /\ UNCHANGED <<entity, providerData, provDiags, orgs, nextOrgId, orgState, orgOrigin,
                 dataState, rt>>

\* variant of BucketReadOutcome: a failed lookup drops the resource from state
BucketReadOutcomeDropsState(state, answer) ==
  IF answer.err
  THEN [calls |-> <<Err("FindBucketByID")>>,
        diags |-> <<Diag("Error reading bucket", "sdk", ValueString(state.Id))>>,
        wrote |-> TRUE, crashed |-> FALSE, state |-> NoState]
  ELSE IF answer.val.CreatedAt = Nil \/ answer.val.UpdatedAt = Nil
  THEN [calls |-> <<Ok("FindBucketByID")>>, diags |-> <<>>,
        wrote |-> FALSE, crashed |-> TRUE, state |-> state]
  ELSE [calls |-> <<Ok("FindBucketByID")>>, diags |-> <<>>,
        wrote |-> TRUE, crashed |-> FALSE, state |-> BucketStateOf(answer.val)]

\* bucketResource.Read: what it does with the answer of the lookup
BucketReadOutcome(state, answer) ==
  IF answer.err
  THEN [calls |-> <<Err("FindBucketByID")>>,
        diags |-> <<Diag("Error reading bucket", "sdk", ValueString(state.Id))>>,
        wrote |-> FALSE, crashed |-> FALSE, state |-> state]
  ELSE IF answer.val.CreatedAt = Nil \/ answer.val.UpdatedAt = Nil
  THEN \* nil *time.Time dereferenced by CreatedAt.String()
       [calls |-> <<Ok("FindBucketByID")>>, diags |-> <<>>,
        wrote |-> FALSE, crashed |-> TRUE, state |-> state]
  ELSE [calls |-> <<Ok("FindBucketByID")>>, diags |-> <<>>,
        wrote |-> TRUE, crashed |-> FALSE, state |-> BucketStateOf(answer.val)]

BucketRead ==
  /\ entity = "bucket"
  /\ providerData # NoClient
  /\ bucketState # NoState
  /\ \E answer \in FindBucketByID(ValueString(bucketState.Id)) :
       LET out == BucketReadOutcome(bucketState, answer) IN
       /\ bucketState' = out.state
       /\ last' = Invocation("bucket", "Read", out.calls, out.diags, out.wrote,
                             out.crashed, ValueString(bucketState.Id), NoState, answer.val)
  /\ UNCHANGED <<entity, providerData, provDiags, orgs, buckets, now, nextOrgId, nextBucketId,
                 orgState, orgOrigin, bucketOrigin, dataState, rt>>


\* bucketResource.Update: the bucket pushed back to the service
BucketUpdateRequest(plan, state, bucket) ==
  [bucket EXCEPT !.Name = ValueString(plan.Name),
                 !.Description = ValueStringPointer(plan.Description),
                 !.RetentionRules = ToRemoteRules(state.RetentioRules)]

\* bucketResource.Update, after a successful UpdateBucket
BucketUpdateState(plan, bucket) ==
  [plan EXCEPT !.Id = StringPointerValue(bucket.Id),
               !.Description = StringPointerValue(bucket.Description),
               !.CreatedAt = StringValue(TimeString(bucket.CreatedAt[2])),
               !.UpdatedAt = StringValue(TimeString(bucket.UpdatedAt[2]))]

BucketUpdate ==
  /\ entity = "bucket"
  /\ providerData # NoClient
  /\ bucketState # NoState
  /\ \E plan \in BucketPlans, answer \in FindBucketByID(ValueString(bucketState.Id)),
        err \in BOOLEAN :
       IF answer.err
       THEN /\ ~err
            /\ last' = Invocation("bucket", "Update", <<Err("FindBucketByID")>>,
                         <<Diag("Error reading bucket", "sdk", ValueString(bucketState.Id))>>,
                         FALSE, FALSE, ValueString(bucketState.Id), plan, NoEntity)
            /\ UNCHANGED <<buckets, now, bucketState>>
       ELSE IF answer.val.Id = Nil
       THEN /\ ~err
            /\ last' = Invocation("bucket", "Update", <<Ok("FindBucketByID")>>,
                         <<Diag("Error reading bucket", "Bucket not found",
                                ValueString(bucketState.Id))>>,
                         FALSE, FALSE, ValueString(bucketState.Id), plan, answer.val)
            /\ UNCHANGED <<buckets, now, bucketState>>
       ELSE LET request == BucketUpdateRequest(plan, bucketState, answer.val)
                bucket == UpdateBucket(request)
            IN IF err \/ ~CanUpdateBucket(request)
               THEN /\ last' = Invocation("bucket", "Update",
                              <<Ok("FindBucketByID"), Err("UpdateBucket")>>,
                              <<Diag("Error updating bucket", "sdk", ValueString(plan.Id))>>,
                              FALSE, FALSE, ValueString(bucketState.Id), plan, NoEntity)
                    /\ UNCHANGED <<buckets, now, bucketState>>
               ELSE /\ buckets' = Put(buckets, request.Id[2], bucket)
                    /\ now' = now + 1
                    /\ bucketState' = BucketUpdateState(plan, bucket)
                    /\ last' = Invocation("bucket", "Update",
                              <<Ok("FindBucketByID"), Ok("UpdateBucket")>>,
                              <<>>, TRUE, FALSE, ValueString(bucketState.Id), plan, bucket)
  /\ UNCHANGED <<entity, providerData, provDiags, orgs, nextOrgId, nextBucketId, orgState,
                 orgOrigin, bucketOrigin, dataState, rt>>

\* bucketResource.Delete; the plugin framework drops the resource's state
\* when Delete returns without an error diagnostic.
BucketDelete ==
  /\ entity = "bucket"
  /\ providerData # NoClient
  /\ bucketState # NoState
  /\ \E err \in BOOLEAN :
       IF err \/ ~CanDeleteBucket(ValueString(bucketState.Id))
       THEN /\ last' = Invocation("bucket", "Delete", <<Err("DeleteBucketWithID")>>,
                         <<Diag("Error deleteing bucket", "sdk", ValueString(bucketState.Id))>>,
                         FALSE, FALSE, ValueString(bucketState.Id), NoState, NoEntity)
            /\ UNCHANGED <<buckets, bucketState, bucketOrigin>>
       ELSE /\ buckets' = Remove(buckets, ValueString(bucketState.Id))
            /\ bucketState' = NoState
            /\ bucketOrigin' = [by |-> "none", id |-> StringNull]
            /\ last' = Invocation("bucket", "Delete", <<Ok("DeleteBucketWithID")>>,
                                  <<>>, FALSE, FALSE, ValueString(bucketState.Id), NoState, NoEntity)
  /\ UNCHANGED <<entity, providerData, provDiags, orgs, now, nextOrgId, nextBucketId,
                 orgState, orgOrigin, dataState, rt>>

\* bucketResource.ImportState: resource.ImportStatePassthroughID sets the id
\* attribute; every other attribute of the new state is null.
BucketImportedState(id) ==
  [Name |-> StringNull, Id |-> StringValue(id), OrgID |-> StringNull,
   Description |-> StringNull, RetentioRules |-> <<>>, RP |-> StringNull,
   ScehmaType |-> StringNull, CreatedAt |-> StringNull, UpdatedAt |-> StringNull]

BucketImportState ==
  /\ entity = "bucket"
  /\ providerData # NoClient
  /\ bucketState = NoState
  /\ \E n \in 1..nextBucketId :
       /\ bucketState' = BucketImportedState(BucketId(n))
       /\ bucketOrigin' = [by |-> "import", id |-> StringValue(BucketId(n))]
       /\ last' = Invocation("bucket", "ImportState", <<>>, <<>>, TRUE, FALSE,
                             BucketId(n), NoState, NoEntity)
  /\ UNCHANGED <<entity, providerData, provDiags, orgs, buckets, now, nextOrgId, nextBucketId,
                 orgState, orgOrigin, dataState, rt>>

(***************************************************************************)
(* Specification of the provider                                           *)
(***************************************************************************)
NoTranscoding == [stage |-> "idle", local |-> <<>>, remote |-> <<>>, back |-> <<>>]

Init ==
  /\ entity \in {"organization", "bucket"}
  /\ providerData = NoClient
  /\ provDiags = <<>>
  /\ orgs = [i \in {} |-> NoEntity]
  /\ buckets = [i \in {} |-> NoEntity]
  /\ now = 0
  /\ nextOrgId = 1
  /\ nextBucketId = 1
  /\ orgState = NoState
  /\ orgOrigin = [by |-> "none", id |-> StringNull]
  /\ bucketState = NoState
  /\ bucketOrigin = [by |-> "none", id |-> StringNull]
  /\ dataState = NoState
  /\ last = Invocation("none", "none", <<>>, <<>>, FALSE, FALSE, "", NoState, NoEntity)
  /\ rt = NoTranscoding

Next ==
  \/ Configure
  \/ OrgCreate
  \/ OrgRead
  \/ OrgUpdate
  \/ OrgDelete
  \/ OrgImportState
  \/ RemoteRenameOrganization
  \/ DataRead
  \/ BucketCreate
  \/ BucketRead
  \/ BucketUpdate
  \/ BucketDelete
  \/ BucketImportState

Spec == Init /\ [][Next]_vars


(***************************************************************************)
(* Specification of the retention-rule transcoding: a rule list of the     *)
(* local model goes to the remote form (as Create and Update send it) and  *)
(* comes back (as Create and Read store it).                               *)
(***************************************************************************)
\* rules a local model can hold: every_seconds is always known; the type is
\* known in a plan and may be null when read back from the service
LocalRules ==
  [EverySeconds : {Int64Value(n) : n \in Seconds},
   RetentionType : {StringNull} \cup {StringValue(t) : t \in RuleTypes}]

InitRT ==
  /\ entity = "bucket"
  /\ providerData = NoClient
  /\ provDiags = <<>>
  /\ orgs = [i \in {} |-> NoEntity]
  /\ buckets = [i \in {} |-> NoEntity]
  /\ now = 0
  /\ nextOrgId = 1
  /\ nextBucketId = 1
  /\ orgState = NoState
  /\ orgOrigin = [by |-> "none", id |-> StringNull]
  /\ bucketState = NoState
  /\ bucketOrigin = [by |-> "none", id |-> StringNull]
  /\ dataState = NoState
  /\ last = Invocation("none", "none", <<>>, <<>>, FALSE, FALSE, "", NoState, NoEntity)
  /\ \E rules \in SeqsUpTo(LocalRules, MaxLen) :
       rt = [stage |-> "local", local |-> rules, remote |-> <<>>, back |-> <<>>]

TranscodeToRemote ==
  /\ rt.stage = "local"
  /\ rt' = [rt EXCEPT !.stage = "remote", !.remote = ToRemoteRules(rt.local)]
  /\ UNCHANGED <<entity, providerData, provDiags, orgs, buckets, now, nextOrgId,
                 nextBucketId, orgState, orgOrigin, bucketState, bucketOrigin,
                 dataState, last>>

TranscodeToLocal ==
  /\ rt.stage = "remote"
  /\ rt' = [rt EXCEPT !.stage = "back", !.back = ToLocalRules(rt.remote)]
  /\ UNCHANGED <<entity, providerData, provDiags, orgs, buckets, now, nextOrgId,
                 nextBucketId, orgState, orgOrigin, bucketState, bucketOrigin,
                 dataState, last>>

NextRT ==
  \/ TranscodeToRemote
  \/ TranscodeToLocal

SpecRT == InitRT /\ [][NextRT]_vars


(***************************************************************************)
(* Properties                                                              *)
(***************************************************************************)
IsResource(l) == l.res \in {"org", "bucket"}
StateOf(res) == IF res = "org" THEN orgState ELSE bucketState
OriginOf(res) == IF res = "org" THEN orgOrigin ELSE bucketOrigin
Failed(l) == \E i \in 1..Len(l.calls) : l.calls[i][2] = "err"

\* the identifier was assigned by the service and is in its store no more:
\* a Delete removed it
Deleted(res, id) ==
  IF res = "org"
  THEN id \notin DOMAIN orgs /\ \E n \in 1..(nextOrgId - 1) : id = OrgId(n)
  ELSE id \notin DOMAIN buckets /\ \E n \in 1..(nextBucketId - 1) : id = BucketId(n)

\* C1: after a successful Create, every successful Read (no Delete in
\* between) writes to local state the identifier that Create wrote, for the
\* organization and for the bucket.
C1_ReadKeepsCreatedId ==
  (IsResource(last) /\ last.op = "Read" /\ last.wrote
     /\ OriginOf(last.res).by = "create")
  => StateOf(last.res).Id = OriginOf(last.res).id

C1_Witness ==
  /\ last.res = "org" /\ last.op = "Read" /\ last.wrote
  /\ orgOrigin.by = "create"
  /\ orgState.Id = StringValue(OrgId(2))

\* C2: a Read of an identifier that a successful Delete removed ends with an
\* error diagnostic and writes no local state.
C2_ReadAfterDeleteFails ==
  (IsResource(last) /\ last.op = "Read" /\ Deleted(last.res, last.id))
  => (HasError(last.diags) /\ ~last.wrote)

\* C3: after a successful Update, the attributes of the written state that
\* the update request does not carry hold the values of the update response.
C3_UpdateKeepsServerValues ==
  (IsResource(last) /\ last.op = "Update" /\ last.wrote)
  => IF last.res = "org"
     THEN /\ orgState.Id = StringPointerValue(last.resp.Id)
          /\ orgState.Status = StringPointerValue(last.resp.Status)
          /\ orgState.CreatedAt = StringValue(TimeString(last.resp.CreatedAt[2]))
          /\ orgState.UpdatedAt = StringValue(TimeString(last.resp.UpdatedAt[2]))
     ELSE /\ bucketState.Id = StringPointerValue(last.resp.Id)
          /\ bucketState.OrgID = StringPointerValue(last.resp.OrgID)
          /\ bucketState.RP = StringPointerValue(last.resp.Rp)
          /\ bucketState.ScehmaType = StringPointerValue(last.resp.SchemaType)
          /\ bucketState.CreatedAt = StringValue(TimeString(last.resp.CreatedAt[2]))
          /\ bucketState.UpdatedAt = StringValue(TimeString(last.resp.UpdatedAt[2]))

\* C4: a retention-rule list transcoded to the remote form and back has the
\* same length and the same (every_seconds, retention_type) at every position.
C4_RulesRoundTrip ==
  rt.stage = "back"
  => /\ Len(rt.back) = Len(rt.local)
     /\ \A i \in 1..Len(rt.local) :
          /\ rt.back[i].EverySeconds = rt.local[i].EverySeconds
          /\ rt.back[i].RetentionType = rt.local[i].RetentionType

C4_Witness ==
  /\ rt.stage = "back"
  /\ Len(rt.local) >= 3
  /\ rt.local[1] = rt.local[3]
  /\ rt.local[1] # rt.local[2]

\* C5: configured with an unknown host, Configure reports an error and hands
\* no client to resources and data sources.
C5_UnknownHostAborts ==
  (last.op = "Configure" /\ IsUnknown(last.plan.Host))
  => (HasError(last.diags) /\ providerData = NoClient)

\* C6: when the lookup of a Read or an Update returns an entity without an
\* identifier, the operation reports a not-found error naming the id and
\* writes no local state.
C6_MissingIdIsNotFound ==
  (IsResource(last) /\ last.op \in {"Read", "Update"}
     /\ last.resp # NoEntity /\ last.resp.Id = Nil)
  => /\ HasError(last.diags)
     /\ last.diags[1].detail \in {"Organization not found", "Bucket not found"}
     /\ last.diags[1].id = last.id
     /\ ~last.wrote

\* C7: a successful organization Read overwrites every attribute of the local
\* state, the name included, with the value of the lookup response.
C7_OrgReadOverwritesAll ==
  (last.res = "org" /\ last.op = "Read" /\ last.wrote)
  => orgState = [Name |-> StringValue(last.resp.Name),
                 Id |-> StringPointerValue(last.resp.Id),
                 Description |-> StringPointerValue(last.resp.Description),
                 Status |-> StringPointerValue(last.resp.Status),
                 CreatedAt |-> StringValue(TimeString(last.resp.CreatedAt[2])),
                 UpdatedAt |-> StringValue(TimeString(last.resp.UpdatedAt[2]))]

\* C8: the data source, asked for a name no remote organization has, ends
\* with an error diagnostic and writes no state; a result it does write
\* carries a non-empty identifier.
C8_UnknownNameFails ==
  (last.res = "data" /\ last.op = "Read")
  => /\ (~\E i \in DOMAIN orgs : orgs[i].Name = ValueString(last.plan.Name))
          => (HasError(last.diags) /\ ~last.wrote)
     /\ last.wrote
          => (dataState.Id[1] = "known" /\ ValueString(dataState.Id) # "")

C8_Witness ==
  /\ last.res = "data" /\ last.op = "Read"
  /\ Reachable
  /\ DOMAIN orgs # {}
  /\ ~\E i \in DOMAIN orgs : orgs[i].Name = ValueString(last.plan.Name)
  /\ HasError(last.diags)

\* C9 as stated: every lifecycle method invocation issues at most one
\* outbound call.
C9_AtMostOneCall ==
  last.res \in {"org", "bucket", "data"} => Len(last.calls) <= 1

\* C9 as amended: Create, Read, Delete and the data-source Read issue at most
\* one outbound call; Update issues at most two, the lookup by id and then,
\* only after that lookup succeeded, the update call.
C9_AtMostOneCallButUpdate ==
  last.res \in {"org", "bucket", "data"}
  => IF last.op = "Update"
     THEN /\ Len(last.calls) <= 2
          /\ Len(last.calls) = 2
               => /\ last.calls[1] \in {Ok("FindOrganizationByID"), Ok("FindBucketByID")}
                  /\ last.calls[2][1] \in {"UpdateOrganization", "UpdateBucket"}
     ELSE Len(last.calls) <= 1

C9_Witness ==
  /\ last.res = "bucket" /\ last.op = "Update"
  /\ last.calls = <<Ok("FindBucketByID"), Ok("UpdateBucket")>>

\* the failed call is the last one issued; an error diagnostic is appended
\* and no local state is written
C10_FailedCallIsLast ==
  (IsResource(last) /\ Failed(last))
  => /\ last.calls[Len(last.calls)][2] = "err"
     /\ \A i \in 1..(Len(last.calls) - 1) : last.calls[i][2] = "ok"
     /\ HasError(last.diags)
     /\ ~last.wrote

\* a step whose invocation had a failed call leaves the local states as they were
C10_FailedStepKeepsState ==
  (IsResource(last') /\ Failed(last'))
  => (orgState' = orgState /\ bucketState' = bucketState)

\* C10: a failed SDK call ends the operation (no further call, an error
\* diagnostic, nothing written) and the step leaves the local state unchanged.
C10_FailedCallEndsOperation ==
  [] C10_FailedCallIsLast /\ [][C10_FailedStepKeepsState]_vars

C10_Witness ==
  /\ last.res = "bucket" /\ last.op = "Update"
  /\ last.calls = <<Err("FindBucketByID")>>
  /\ Reachable
  /\ bucketState # NoState

\* a successful invocation leaves the resource where the lifecycle says:
\* Create, Read, Update and ImportState leave it managed, Delete unmanaged
C11_Transitions ==
  (IsResource(last) /\ ~HasError(last.diags) /\ ~last.crashed)
  => IF last.op = "Delete"
     THEN StateOf(last.res) = NoState /\ Deleted(last.res, last.id)
     ELSE /\ StateOf(last.res) # NoState
          /\ last.op = "Create" => OriginOf(last.res).by = "create"

\* a Read, Update or Delete that addresses an identifier a Delete has removed
\* ends with an error and leaves the local states as they were
C11_TerminalStep ==
  (IsResource(last') /\ last'.op \in {"Read", "Update", "Delete"}
     /\ Deleted(last'.res, last'.id))
  => /\ HasError(last'.diags)
     /\ ~last'.wrote
     /\ orgState' = orgState /\ bucketState' = bucketState

\* C11: Create leads to a managed (created) resource, Read and Update keep it
\* managed (refreshed), Delete leads to deleted, and deleted is terminal:
\* after a successful Delete no Read, Update or Delete on that identifier
\* succeeds or changes the state.
C11_DeletedIsTerminal ==
  [] C11_Transitions /\ [][C11_TerminalStep]_vars

\* C12 as stated: a bucket Create whose retention-rule list is empty, or whose
\* organization id is absent, is rejected by the provider: it ends with an
\* error and issues no create call.
C12_EmptyRulesRejected ==
  (last.res = "bucket" /\ last.op = "Create"
     /\ (last.plan.RetentioRules = <<>> \/ last.plan.OrgID[1] # "known"))
  => (HasError(last.diags) /\ last.calls = <<>>)

\* C12 as amended: every bucket the service holds after a successful Create
\* carries the plan's organization id (never an absent one) and the plan's
\* retention rules, rule for rule, an empty list included.
C12_CreateSendsPlan ==
  (last.res = "bucket" /\ last.op = "Create" /\ last.wrote)
  => /\ last.id = ""
     /\ ValueString(bucketState.Id) \in DOMAIN buckets
     /\ LET held == buckets[ValueString(bucketState.Id)] IN
        /\ held.OrgID # Nil
        /\ held.OrgID = Ptr(ValueString(last.plan.OrgID))
        /\ Len(held.RetentionRules) = Len(last.plan.RetentioRules)
        /\ \A i \in 1..Len(held.RetentionRules) :
             /\ held.RetentionRules[i].EverySeconds
                  = ValueInt64(last.plan.RetentioRules[i].EverySeconds)
             /\ held.RetentionRules[i].Type
                  = ValueStringPointer(last.plan.RetentioRules[i].RetentionType)

C12_Witness ==
  /\ last.res = "bucket" /\ last.op = "Create" /\ last.wrote
  /\ last.plan.RetentioRules = <<>>
  /\ buckets[ValueString(bucketState.Id)].RetentionRules = <<>>

\* C13: after a successful bucket Update whose plan changes the retention
\* rules, the rules the service holds are the plan's new rules, and the rules
\* written to local state are those the service holds.
C13_UpdateSendsPlanRules ==
  (last.res = "bucket" /\ last.op = "Update" /\ last.wrote)
  => /\ last.resp.RetentionRules = ToRemoteRules(last.plan.RetentioRules)
     /\ buckets[last.id].RetentionRules = ToRemoteRules(last.plan.RetentioRules)
     /\ bucketState.RetentioRules = ToLocalRules(buckets[last.id].RetentionRules)

\* C14: a successful lookup by name maps the remote organization field by
\* field into the result: id, description, status and timestamps are those
\* of the organization the service returned.
C14_DataSourceMapsFields ==
  (last.res = "data" /\ last.op = "Read" /\ last.wrote)
  => /\ dataState.Id = StringPointerValue(last.resp.Id)
     /\ dataState.Description = StringPointerValue(last.resp.Description)
     /\ dataState.Status = StringPointerValue(last.resp.Status)
     /\ dataState.CreatedAt = StringValue(TimeString(last.resp.CreatedAt[2]))
     /\ dataState.UpdatedAt = StringValue(TimeString(last.resp.UpdatedAt[2]))

====
